---- MODULE Spec2Model ----
(***************************************************************************)
(* Model of dialogflow_fulfillment/contexts.py: the Context store.         *)
(*                                                                         *)
(* A Python string is a sequence of tokens: the token "/" is the slash     *)
(* character and every other token is a run of characters without a slash. *)
(* A context object is a Python dict: a function whose domain is a subset  *)
(* of {"name", "lifespanCount", "parameters"}.  Objects live in a heap and *)
(* the dicts of the store hold references (heap indices), so that the      *)
(* aliasing between input_contexts and contexts is part of the model.      *)
(* An optional argument is <<>> (None) or <<v>>.                           *)
(***************************************************************************)
EXTENDS Integers, Sequences, FiniteSets, TLC

VARIABLES
    phase,            \* "new" before Context(...) is called, "ready" after
    inbound,          \* the input_contexts argument as the platform sent it
    heap,             \* the context objects, by reference
    input_contexts,   \* self.input_contexts: ordered dict name -> reference
    session,          \* self.session
    contexts,         \* self.contexts: ordered dict name -> reference
    _index,           \* self._index, <<>> while the attribute does not exist
    _context_array,   \* self._context_array, <<>> while it does not exist
    emitted,          \* number of get_output_contexts_array calls so far
    calls,            \* number of method calls so far
    last,             \* the most recent call: its arguments and its outcome
    loops             \* the caller's iterations over the store, in order of start

vars == <<phase, inbound, heap, input_contexts, session, contexts,
          _index, _context_array, emitted, calls, last, loops>>

store == <<heap, input_contexts, session, contexts>>

-----------------------------------------------------------------------------
(* Bounds *)

MaxInbound == 2
MaxCalls == 3
MaxEmit == 2
MaxLoopInbound == 3
MaxLoops == 2

-----------------------------------------------------------------------------
(* Values *)

None == <<>>
Some(v) == <<v>>

Str(s) == [type |-> "str", val |-> s]
NotAStr == [type |-> "int", val |-> <<"123">>]

P1 == [color |-> "red", size |-> "L"]
P2 == [size |-> "M"]

Sessions == { <<"p", "/", "s1">> }

InboundRecords ==
    { [name |-> <<"p", "/", "s1", "/", "contexts", "/", "a">>,
       lifespanCount |-> 2, parameters |-> P1],
      [name |-> <<"p", "/", "s1", "/", "contexts", "/", "b">>],
      [name |-> <<"a">>, lifespanCount |-> 0] }

RECURSIVE SeqsUpTo(_, _)
SeqsUpTo(S, n) ==
    IF n = 0 THEN { <<>> }
    ELSE LET shorter == SeqsUpTo(S, n - 1)
         IN  shorter \cup { Append(s, x) : s \in { t \in shorter : Len(t) = n - 1 }, x \in S }

NameArgs == { Str(<<"a">>), Str(<<"c", "/", "d">>), NotAStr }
LifespanArgs == { None, Some(0), Some(1) }
ParameterArgs == { None, Some(P2) }

-----------------------------------------------------------------------------
(* Python dict and str primitives *)

\* d[k] = v on a context object
SetItem(rec, k, v) == [f \in DOMAIN rec \cup {k} |-> IF f = k THEN v ELSE rec[f]]

\* k in d, for an ordered dict kept as a sequence of entries
HasKey(d, k) == \E i \in 1..Len(d) : d[i].key = k

KeyIndex(d, k) == CHOOSE i \in 1..Len(d) : d[i].key = k

\* d[k]
Lookup(d, k) == d[KeyIndex(d, k)].ref

\* a slip: an existing key is dropped and entered again, last
Store_moveToEnd(d, k, r) ==
    Append(SelectSeq(d, LAMBDA e : e.key # k), [key |-> k, ref |-> r])

\* d[k] = ref: an existing key keeps its position, a new key goes last
Store(d, k, r) ==
    IF HasKey(d, k) THEN [d EXCEPT ![KeyIndex(d, k)].ref = r]
    ELSE Append(d, [key |-> k, ref |-> r])

Keys(d) == [i \in 1..Len(d) |-> d[i].key]
KeySet(d) == { d[i].key : i \in 1..Len(d) }

\* list(d.values())
Values(d) == [i \in 1..Len(d) |-> d[i].ref]

\* a slip: s.split('/')[0], the first segment
LastSegment_first(s) ==
    LET slashes == { i \in 1..Len(s) : s[i] = "/" }
    IN  IF slashes = {} THEN s
        ELSE LET cut == CHOOSE i \in slashes : \A j \in slashes : i <= j
             IN  SubSeq(s, 1, cut - 1)

\* s.rsplit('/', 1)[-1]
LastSegment(s) ==
    LET slashes == { i \in 1..Len(s) : s[i] = "/" }
    IN  IF slashes = {} THEN s
        ELSE LET cut == CHOOSE i \in slashes : \A j \in slashes : j <= i
             IN  SubSeq(s, cut + 1, Len(s))

-----------------------------------------------------------------------------
(* Context._process_input_contexts *)

\* one turn of the loop over input_contexts, on the object with reference i
ProcessOne(st, i) ==
    LET name == LastSegment(st.heap[i]["name"])
    IN  [heap |-> [st.heap EXCEPT ![i] = SetItem(@, "name", name)],
         dict |-> Store(st.dict, name, i)]

RECURSIVE ProcessLoop(_, _, _)
ProcessLoop(st, i, n) ==
    IF i > n THEN st ELSE ProcessLoop(ProcessOne(st, i), i + 1, n)

\* the objects of the list are the references 1..Len(h)
ProcessInputContexts(h) == ProcessLoop([heap |-> h, dict |-> <<>>], 1, Len(h))

-----------------------------------------------------------------------------

NoCall == [op |-> "none", name |-> NotAStr, lifespan_count |-> None,
           parameters |-> None, raised |-> "", ret |-> <<>>]

Init ==
    /\ phase = "new"
    /\ inbound \in SeqsUpTo(InboundRecords, MaxInbound)
    /\ heap = inbound
    /\ session \in Sessions
    /\ input_contexts = <<>>
    /\ contexts = <<>>
    /\ _index = <<>>
    /\ _context_array = <<>>
    /\ emitted = 0
    /\ calls = 0
    /\ last = NoCall
    /\ loops = <<>>

\* Context.__init__
Construct ==
    /\ phase = "new"
    /\ LET processed == ProcessInputContexts(heap)
       IN  /\ heap' = processed.heap
           /\ input_contexts' = processed.dict
           /\ contexts' = processed.dict
    /\ phase' = "ready"
    /\ last' = [NoCall EXCEPT !.op = "init"]
    /\ UNCHANGED <<inbound, session, _index, _context_array, emitted, calls>>

-----------------------------------------------------------------------------
(* Context.set *)

\* a slip: the type check left out
IsStr_unchecked(name) == TRUE

\* isinstance(name, str)
IsStr(name) == name.type = "str"

\* a slip: the record made anew on every call, the membership test left out
SetCreate_always(st, name) ==
    [heap |-> Append(st.heap, [name |-> name]),
     dict |-> Store(st.dict, name, Len(st.heap) + 1)]

\* if name not in self.contexts: self.contexts[name] = {'name': name}
SetCreate(st, name) ==
    IF HasKey(st.dict, name) THEN st
    ELSE [heap |-> Append(st.heap, [name |-> name]),
          dict |-> Store(st.dict, name, Len(st.heap) + 1)]

\* a slip: lifespan_count defaulting to 0 instead of None
SetLifespan_default(rec, lifespan_count) ==
    SetItem(rec, "lifespanCount", IF lifespan_count # None THEN lifespan_count[1] ELSE 0)

\* if lifespan_count is not None: self.contexts[name]['lifespanCount'] = lifespan_count
SetLifespan(rec, lifespan_count) ==
    IF lifespan_count # None THEN SetItem(rec, "lifespanCount", lifespan_count[1])
    ELSE rec

\* a slip: the new parameters merged into the old ones (dict.update)
SetParameters_merge(rec, parameters) ==
    IF parameters = None THEN rec
    ELSE IF "parameters" \notin DOMAIN rec THEN SetItem(rec, "parameters", parameters[1])
    ELSE SetItem(rec, "parameters",
                 [k \in DOMAIN rec["parameters"] \cup DOMAIN parameters[1] |->
                      IF k \in DOMAIN parameters[1] THEN parameters[1][k]
                      ELSE rec["parameters"][k]])

\* a slip: omitted parameters remove the field
SetParameters_clear(rec, parameters) ==
    IF parameters # None THEN SetItem(rec, "parameters", parameters[1])
    ELSE [f \in DOMAIN rec \ {"parameters"} |-> rec[f]]

\* if parameters is not None: self.contexts[name]['parameters'] = parameters
SetParameters(rec, parameters) ==
    IF parameters # None THEN SetItem(rec, "parameters", parameters[1])
    ELSE rec

\* the whole of set: the exception it raises ("" for none) and the heap and
\* mapping it leaves
SetCall(h, c, name, lifespan_count, parameters) ==
    IF ~IsStr(name)
    THEN [raised |-> "TypeError", heap |-> h, dict |-> c]
    ELSE LET created == SetCreate([heap |-> h, dict |-> c], name.val)
             ref == Lookup(created.dict, name.val)
         IN  [raised |-> "",
              heap |-> [created.heap EXCEPT
                          ![ref] = SetParameters(SetLifespan(@, lifespan_count), parameters)],
              dict |-> created.dict]

\* a slip: self.contexts = self.input_contexts, one dict under two names
Set_sharedDict(name, lifespan_count, parameters) ==
    /\ phase = "ready"
    /\ calls < MaxCalls
    /\ LET r == SetCall(heap, contexts, name, lifespan_count, parameters)
       IN  /\ heap' = r.heap
           /\ contexts' = r.dict
           /\ input_contexts' = r.dict
           /\ last' = [op |-> "set", name |-> name, lifespan_count |-> lifespan_count,
                       parameters |-> parameters, raised |-> r.raised, ret |-> <<>>]
    /\ calls' = calls + 1
    /\ UNCHANGED <<phase, inbound, session, _index, _context_array, emitted>>

Set(name, lifespan_count, parameters) ==
    /\ phase = "ready"
    /\ calls < MaxCalls
    /\ LET r == SetCall(heap, contexts, name, lifespan_count, parameters)
       IN  /\ heap' = r.heap
           /\ contexts' = r.dict
           /\ last' = [op |-> "set", name |-> name, lifespan_count |-> lifespan_count,
                       parameters |-> parameters, raised |-> r.raised, ret |-> <<>>]
    /\ calls' = calls + 1
    /\ UNCHANGED <<phase, inbound, input_contexts, session, _index, _context_array, emitted>>

-----------------------------------------------------------------------------
(* Context.get *)

\* self.contexts.get(name): <<reference>>, or None
GetCall(c, name) ==
    IF IsStr(name) /\ HasKey(c, name.val) THEN Some(Lookup(c, name.val)) ELSE None

\* a slip: self.contexts.setdefault(name, {'name': name})
Get_setdefault(name) ==
    /\ phase = "ready"
    /\ calls < MaxCalls
    /\ LET made == IF IsStr(name) THEN SetCreate([heap |-> heap, dict |-> contexts], name.val)
                   ELSE [heap |-> heap, dict |-> contexts]
       IN  /\ heap' = made.heap
           /\ contexts' = made.dict
           /\ last' = [NoCall EXCEPT !.op = "get", !.name = name,
                                     !.ret = GetCall(made.dict, name)]
    /\ calls' = calls + 1
    /\ UNCHANGED <<phase, inbound, input_contexts, session, _index, _context_array, emitted>>

Get(name) ==
    /\ phase = "ready"
    /\ calls < MaxCalls
    /\ last' = [NoCall EXCEPT !.op = "get", !.name = name, !.ret = GetCall(contexts, name)]
    /\ calls' = calls + 1
    /\ UNCHANGED <<phase, inbound, heap, input_contexts, session, contexts,
                   _index, _context_array, emitted>>

-----------------------------------------------------------------------------
(* Context.delete *)

\* a slip: delete of an unknown name made a no-op
DeleteCall_known(h, c, name) ==
    IF name.type = "str" /\ ~HasKey(c, name.val)
    THEN [raised |-> "", heap |-> h, dict |-> c]
    ELSE SetCall(h, c, name, Some(0), None)

\* a slip: delete that removes the entry from the mapping (del self.contexts[name])
DeleteCall_pop(h, c, name) ==
    IF name.type = "str" /\ HasKey(c, name.val)
    THEN [raised |-> "", heap |-> h,
          dict |-> SelectSeq(c, LAMBDA e : e.key # name.val)]
    ELSE SetCall(h, c, name, Some(0), None)

\* self.set(name, lifespan_count=0)
DeleteCall(h, c, name) == SetCall(h, c, name, Some(0), None)

Delete(name) ==
    /\ phase = "ready"
    /\ calls < MaxCalls
    /\ LET r == DeleteCall(heap, contexts, name)
       IN  /\ heap' = r.heap
           /\ contexts' = r.dict
           /\ last' = [NoCall EXCEPT !.op = "delete", !.name = name, !.raised = r.raised]
    /\ calls' = calls + 1
    /\ UNCHANGED <<phase, inbound, input_contexts, session, _index, _context_array, emitted>>

-----------------------------------------------------------------------------
(* Context.__iter__ and Context.__next__ *)

\* a slip: the values listed newest first
ContextArray_reversed(c) == [i \in 1..Len(c) |-> c[Len(c) + 1 - i].ref]

\* list(self.contexts.values())
ContextArray(c) == Values(c)

IterCall ==
    /\ phase = "ready"
    /\ _index' = Some(0)
    /\ _context_array' = Some(ContextArray(contexts))
    /\ last' = [NoCall EXCEPT !.op = "iter"]
    /\ calls' = calls + 1
    /\ UNCHANGED <<phase, inbound, heap, input_contexts, session, contexts, emitted>>

\* iter(store), as one of the calls of a handler
Iter == calls < MaxCalls /\ IterCall

\* a slip: the record handed out is taken out of the mapping
NextCall_consuming ==
    /\ phase = "ready"
    /\ IF _index = None
       THEN /\ last' = [NoCall EXCEPT !.op = "next", !.raised = "AttributeError"]
            /\ UNCHANGED <<_index, contexts>>
       ELSE IF _index[1] >= Len(_context_array[1])
       THEN /\ last' = [NoCall EXCEPT !.op = "next", !.raised = "StopIteration"]
            /\ UNCHANGED <<_index, contexts>>
       ELSE /\ last' = [NoCall EXCEPT !.op = "next",
                                      !.ret = Some(_context_array[1][_index[1] + 1])]
            /\ _index' = Some(_index[1] + 1)
            /\ contexts' = SelectSeq(contexts,
                                     LAMBDA e : e.ref # _context_array[1][_index[1] + 1])
    /\ calls' = calls + 1
    /\ UNCHANGED <<phase, inbound, heap, input_contexts, session, _context_array, emitted>>

\* next(store); before the first iter(store) the cursor attributes do not exist
NextCall ==
    /\ phase = "ready"
    /\ IF _index = None
       THEN /\ last' = [NoCall EXCEPT !.op = "next", !.raised = "AttributeError"]
            /\ UNCHANGED _index
       ELSE IF _index[1] >= Len(_context_array[1])
       THEN /\ last' = [NoCall EXCEPT !.op = "next", !.raised = "StopIteration"]
            /\ UNCHANGED _index
       ELSE /\ last' = [NoCall EXCEPT !.op = "next",
                                      !.ret = Some(_context_array[1][_index[1] + 1])]
            /\ _index' = Some(_index[1] + 1)
    /\ calls' = calls + 1
    /\ UNCHANGED <<phase, inbound, heap, input_contexts, session, contexts,
                   _context_array, emitted>>

\* next(store), as one of the calls of a handler
NextItem == calls < MaxCalls /\ NextCall

-----------------------------------------------------------------------------
(* Context.get_output_contexts_array *)

\* a slip: the session left out of the prefix
Qualify_noSession(sess, name) == <<"contexts", "/">> \o name

\* f"{self.session}/contexts/{context['name']}"
Qualify(sess, name) == sess \o <<"/", "contexts", "/">> \o name

\* a slip that is the repair the design notes ask for: the names are
\* rewritten on copies, the live records are left alone
QualifyLoop_copy(h, sess, output_contexts, i) == h

\* for context in output_contexts: context['name'] = ...
RECURSIVE QualifyLoop(_, _, _, _)
QualifyLoop(h, sess, output_contexts, i) ==
    IF i > Len(output_contexts) THEN h
    ELSE QualifyLoop([h EXCEPT ![output_contexts[i]] =
                           SetItem(@, "name", Qualify(sess, @["name"]))],
                     sess, output_contexts, i + 1)

\* a slip: the expired records left out of the emission
Emit_activeOnly ==
    /\ phase = "ready"
    /\ calls < MaxCalls
    /\ emitted < MaxEmit
    /\ LET output_contexts ==
               SelectSeq(ContextArray(contexts),
                         LAMBDA r : ~("lifespanCount" \in DOMAIN heap[r]
                                      /\ heap[r]["lifespanCount"] = 0))
       IN  /\ _context_array' = Some(ContextArray(contexts))
           /\ _index' = Some(Len(contexts))
           /\ heap' = QualifyLoop(heap, session, output_contexts, 1)
           /\ last' = [NoCall EXCEPT !.op = "emit", !.ret = output_contexts]
    /\ emitted' = emitted + 1
    /\ calls' = calls + 1
    /\ UNCHANGED <<phase, inbound, input_contexts, session, contexts>>

\* [*self] is iter(self) followed by next(self) until StopIteration: it leaves
\* the cursor of the store at the end of a fresh array
Emit ==
    /\ phase = "ready"
    /\ calls < MaxCalls
    /\ emitted < MaxEmit
    /\ LET output_contexts == ContextArray(contexts)
       IN  /\ _context_array' = Some(output_contexts)
           /\ _index' = Some(Len(output_contexts))
           /\ heap' = QualifyLoop(heap, session, output_contexts, 1)
           /\ last' = [NoCall EXCEPT !.op = "emit", !.ret = output_contexts]
    /\ emitted' = emitted + 1
    /\ calls' = calls + 1
    /\ UNCHANGED <<phase, inbound, input_contexts, session, contexts>>

-----------------------------------------------------------------------------

\* the calls of a handler, in any order; the handler runs no iteration of its
\* own beside them
Next ==
    \/ Construct /\ UNCHANGED loops
    \/ \E name \in NameArgs, lifespan_count \in LifespanArgs, parameters \in ParameterArgs :
          Set(name, lifespan_count, parameters) /\ UNCHANGED loops
    \/ \E name \in NameArgs : Get(name) /\ UNCHANGED loops
    \/ \E name \in NameArgs : Delete(name) /\ UNCHANGED loops
    \/ Iter /\ UNCHANGED loops
    \/ NextItem /\ UNCHANGED loops
    \/ Emit /\ UNCHANGED loops

Spec == Init /\ [][Next]_vars

-----------------------------------------------------------------------------
(* Iterations of a caller over the store: `for context in store`, which is  *)
(* iter(store) followed by next(store) until StopIteration.  The store is   *)
(* its own iterator, so every iteration of it runs on the one cursor.       *)

\* an iteration in progress: the call count at its iter(store), the records
\* it was given, and the call count at its StopIteration (0 while running)
NewLoop(at) == [start |-> at, got |-> <<>>, end |-> 0]

Running(l) == l \in 1..Len(loops) /\ loops[l].end = 0

\* for ... in store: the call of __iter__
LoopStart ==
    /\ Len(loops) < MaxLoops
    /\ IterCall
    /\ loops' = Append(loops, NewLoop(calls'))

\* the next turn of iteration l: the call of __next__, whose record is the
\* loop variable and whose StopIteration ends the loop
LoopStep(l) ==
    /\ Running(l)
    /\ NextCall
    /\ loops' = [loops EXCEPT ![l] =
                    IF last'.raised = "StopIteration"
                    THEN [@ EXCEPT !.end = calls']
                    ELSE [@ EXCEPT !.got = Append(@, last'.ret[1])]]

InitLoops ==
    /\ phase = "new"
    /\ inbound \in SeqsUpTo(InboundRecords, MaxLoopInbound)
    /\ heap = inbound
    /\ session \in Sessions
    /\ input_contexts = <<>>
    /\ contexts = <<>>
    /\ _index = <<>>
    /\ _context_array = <<>>
    /\ emitted = 0
    /\ calls = 0
    /\ last = NoCall
    /\ loops = <<>>

NextLoops ==
    \/ Construct /\ UNCHANGED loops
    \/ LoopStart
    \/ \E l \in 1..MaxLoops : LoopStep(l)

\* a store that is constructed and then only iterated
SpecLoops == InitLoops /\ [][NextLoops]_vars

-----------------------------------------------------------------------------
(* Vocabulary of the properties *)

Fields == {"lifespanCount", "parameters"}

\* field f is present in both objects with the same value, or absent in both
SameField(r1, r2, f) ==
    /\ (f \in DOMAIN r1) <=> (f \in DOMAIN r2)
    /\ f \in DOMAIN r1 => r1[f] = r2[f]

\* short is what follows the last "/" of full (all of full when it has none)
IsFinalSegment(short, full) ==
    /\ \A i \in 1..Len(short) : short[i] # "/"
    /\ Len(short) <= Len(full)
    /\ SubSeq(full, Len(full) - Len(short) + 1, Len(full)) = short
    /\ Len(short) < Len(full) => full[Len(full) - Len(short)] = "/"

\* the object stored under key k of dict d in the heap h
Record(h, d, k) == h[Lookup(d, k)]

\* the step taken is a call of op
Called(op) == last'.op = op /\ calls' = calls + 1

Active(rec) == "lifespanCount" \notin DOMAIN rec \/ rec["lifespanCount"] > 0
Expired(rec) == "lifespanCount" \in DOMAIN rec /\ rec["lifespanCount"] = 0

-----------------------------------------------------------------------------
\* C1: right after construction every key of the mapping is the final
\* '/'-delimited segment of an inbound record's name, the record under the key
\* is named by the key, its lifespanCount and parameters are those of that
\* inbound record, and get(key) returns the record.
C1_ConstructionCanonical ==
    (phase = "ready" /\ calls = 0) =>
        \A i \in 1..Len(contexts) :
            LET k == contexts[i].key
                rec == heap[contexts[i].ref]
            IN  /\ rec["name"] = k
                /\ DOMAIN rec \subseteq {"name"} \cup Fields
                /\ \E j \in 1..Len(inbound) :
                      /\ IsFinalSegment(k, inbound[j]["name"])
                      /\ \A f \in Fields : SameField(rec, inbound[j], f)
                /\ GetCall(contexts, Str(k)) = Some(contexts[i].ref)

C1_Witness ==
    /\ phase = "ready" /\ calls = 0
    /\ Len(inbound) = 2
    /\ inbound[1]["name"] = <<"p", "/", "s1", "/", "contexts", "/", "a">>
    /\ Keys(contexts) = << <<"a">>, <<"b">> >>
    /\ heap[contexts[1].ref] = [name |-> <<"a">>, lifespanCount |-> 2, parameters |-> P1]

\* C2: set on an existing record changes only the fields whose argument is
\* given: an omitted lifespanCount or parameters leaves that field as it was,
\* a given lifespanCount is stored, and given parameters replace the whole
\* parameter mapping.
C2_SetOnlyGivenFields ==
    [][ \A k \in KeySet(contexts) :
          (Called("set") /\ last'.name = Str(k)) =>
              LET old == Record(heap, contexts, k)
                  new == Record(heap', contexts', k)
              IN  /\ new["name"] = old["name"]
                  /\ IF last'.lifespan_count = None
                     THEN SameField(new, old, "lifespanCount")
                     ELSE /\ "lifespanCount" \in DOMAIN new
                          /\ new["lifespanCount"] = last'.lifespan_count[1]
                  /\ IF last'.parameters = None
                     THEN SameField(new, old, "parameters")
                     ELSE /\ "parameters" \in DOMAIN new
                          /\ new["parameters"] = last'.parameters[1]
      ]_vars

\* an inbound record with parameters P1 was given lifespanCount 1 by a set,
\* and then set("a", parameters=P2) was called
C2_Witness ==
    /\ inbound = << [name |-> <<"p", "/", "s1", "/", "contexts", "/", "a">>,
                     lifespanCount |-> 2, parameters |-> P1] >>
    /\ calls = 2
    /\ last.op = "set" /\ last.name = Str(<<"a">>)
    /\ last.lifespan_count = None /\ last.parameters = Some(P2)
    /\ Record(heap, contexts, <<"a">>) =
          [name |-> <<"a">>, lifespanCount |-> 1, parameters |-> P2]

\* C3: delete(name) does what set(name, lifespanCount=0) does: on an existing
\* record lifespanCount becomes 0 and nothing else changes; on an absent name
\* a record with that name, lifespanCount 0 and no parameters is appended.
C3_DeleteIsSetZero ==
    [][ Called("delete") =>
          LET name == last'.name
              asSet == SetCall(heap, contexts, name, Some(0), None)
          IN  /\ heap' = asSet.heap
              /\ contexts' = asSet.dict
              /\ last'.raised = asSet.raised
              /\ UNCHANGED <<input_contexts, session>>
              /\ name.type = "str" =>
                   IF HasKey(contexts, name.val)
                   THEN /\ contexts' = contexts
                        /\ heap' = [heap EXCEPT ![Lookup(contexts, name.val)] =
                                       SetItem(@, "lifespanCount", 0)]
                   ELSE /\ contexts' = Append(contexts, [key |-> name.val, ref |-> Len(heap) + 1])
                        /\ heap' = Append(heap, [name |-> name.val, lifespanCount |-> 0])
      ]_vars

\* delete of a name the mapping did not have
C3_Witness ==
    /\ last.op = "delete" /\ last.name = Str(<<"c", "/", "d">>) /\ last.raised = ""
    /\ calls = 1
    /\ Len(inbound) = 1
    /\ Record(heap, contexts, <<"c", "/", "d">>) = [name |-> <<"c", "/", "d">>, lifespanCount |-> 0]

\* C4: the first emission returns every record of the mapping, named by the
\* session, then "/contexts/", then the key of the record, with lifespanCount
\* and parameters as they were in the store.
C4_FirstEmissionQualifies ==
    [][ (Called("emit") /\ emitted = 0) =>
          /\ Len(last'.ret) = Len(contexts)
          /\ \A i \in 1..Len(contexts) :
                LET ref == contexts[i].ref
                IN  /\ last'.ret[i] = ref
                    /\ heap'[ref]["name"] = session \o <<"/", "contexts", "/">> \o contexts[i].key
                    /\ DOMAIN heap'[ref] = DOMAIN heap[ref]
                    /\ \A f \in Fields : SameField(heap'[ref], heap[ref], f)
      ]_vars

C4_Witness ==
    /\ last.op = "emit" /\ emitted = 1
    /\ Len(last.ret) = 2
    /\ heap[last.ret[1]] = [name |-> <<"p", "/", "s1", "/", "contexts", "/", "a">>,
                            lifespanCount |-> 1, parameters |-> P1]
    /\ heap[last.ret[2]]["name"] = <<"p", "/", "s1", "/", "contexts", "/", "b">>

\* the canonical names of the inbound records, each at its first occurrence
RECURSIVE FirstOccurrences(_)
FirstOccurrences(names) ==
    IF names = <<>> THEN <<>>
    ELSE LET front == FirstOccurrences(SubSeq(names, 1, Len(names) - 1))
             x == names[Len(names)]
         IN  IF \E i \in 1..Len(front) : front[i] = x THEN front ELSE Append(front, x)

InboundNames == [j \in 1..Len(inbound) |-> LastSegment(inbound[j]["name"])]

\* C5: the mapping is in insertion order and emission follows it: construction
\* puts the inbound names in inbound order, a set or delete of a new name puts
\* it last, a set or delete of an existing name moves nothing, no other call
\* changes the order, and emission returns each record once in that order.
C5_InsertionOrder ==
    [][ /\ (phase = "new" /\ phase' = "ready") => Keys(contexts') = FirstOccurrences(InboundNames)
        /\ (Called("set") \/ Called("delete")) =>
              Keys(contexts') =
                  IF last'.name.type # "str" \/ HasKey(contexts, last'.name.val)
                  THEN Keys(contexts)
                  ELSE Append(Keys(contexts), last'.name.val)
        /\ (Called("get") \/ Called("iter") \/ Called("next") \/ Called("emit")) =>
              Keys(contexts') = Keys(contexts)
        /\ Called("emit") =>
              /\ Len(last'.ret) = Len(contexts)
              /\ \A i \in 1..Len(contexts) : last'.ret[i] = Lookup(contexts, Keys(contexts)[i])
        /\ phase' = "ready" =>
              SubSeq(Keys(contexts'), 1, Len(input_contexts')) = FirstOccurrences(InboundNames)
      ]_vars

\* inbound [a, b], then a new name, a set of an existing name, and emission
C5_Witness ==
    /\ last.op = "emit" /\ calls = 3
    /\ Len(inbound) = 2
    /\ Keys(contexts) = << <<"a">>, <<"b">>, <<"c", "/", "d">> >>
    /\ [i \in 1..3 |-> LastSegment(heap[last.ret[i]]["name"])] = << <<"a">>, <<"b">>, <<"d">> >>
    /\ "lifespanCount" \in DOMAIN heap[last.ret[1]]
    /\ heap[last.ret[1]]["lifespanCount"] = 1

\* C6: set with a name that is not a string raises TypeError and leaves the
\* heap, the mapping, the inbound snapshot and the session as they were.
C6_SetRejectsNonString ==
    [][ (Called("set") /\ last'.name.type # "str") =>
          /\ last'.raised = "TypeError"
          /\ UNCHANGED store
      ]_vars

C6_Witness ==
    /\ last.op = "set" /\ last.name = NotAStr /\ last.raised = "TypeError"
    /\ last.lifespan_count = Some(1) /\ last.parameters = Some(P2)
    /\ Len(contexts) = 2

\* C7: a key of the mapping stays a key, and after delete(name) get(name)
\* returns the record with the parameters it had and lifespanCount 0.
C7_NeverRemoved ==
    [][ /\ KeySet(contexts) \subseteq KeySet(contexts')
        /\ \A k \in KeySet(contexts) :
              (Called("delete") /\ last'.name = Str(k)) =>
                  /\ GetCall(contexts', Str(k)) = Some(Lookup(contexts, k))
                  /\ Record(heap', contexts', k)["lifespanCount"] = 0
                  /\ SameField(Record(heap', contexts', k), Record(heap, contexts, k), "parameters")
      ]_vars

C7_Witness ==
    /\ last.op = "delete" /\ last.name = Str(<<"a">>)
    /\ Len(inbound) = 1
    /\ heap[1] = [name |-> <<"a">>, lifespanCount |-> 0, parameters |-> P1]
    /\ GetCall(contexts, Str(<<"a">>)) = Some(1)

\* C8: in every state of a constructed store every key of the mapping is
\* free of "/" and the record under a key is named by the key.
C8_KeysCanonical ==
    phase = "ready" =>
        \A i \in 1..Len(contexts) :
            /\ \A j \in 1..Len(contexts[i].key) : contexts[i].key[j] # "/"
            /\ heap[contexts[i].ref]["name"] = contexts[i].key

\* the snapshot as __init__ built it
SnapshotAtConstruction == ProcessInputContexts(inbound)

\* C9: every field an inbound record had at construction still has its
\* construction-time value in the snapshot input_contexts.
C9_SnapshotUnaltered ==
    phase = "ready" =>
        /\ input_contexts = SnapshotAtConstruction.dict
        /\ \A i \in 1..Len(input_contexts) :
              LET now == heap[input_contexts[i].ref]
                  then == SnapshotAtConstruction.heap[input_contexts[i].ref]
              IN  \A f \in DOMAIN then : f \in DOMAIN now /\ now[f] = then[f]

\* C10: a record goes from active to expired only in a set or delete of its
\* own name with lifespanCount 0, from expired to active only in a set of its
\* own name with a positive lifespanCount, and a get, an iteration step, an
\* emission or a set or delete of another name changes neither state.
C10_ActiveExpired ==
    [][ \A k \in KeySet(contexts) :
          LET old == Record(heap, contexts, k)
              new == Record(heap', contexts', k)
              own == last'.name = Str(k)
          IN  /\ HasKey(contexts', k)
              /\ (Active(old) /\ Expired(new)) =>
                    \/ Called("set") /\ own /\ last'.lifespan_count = Some(0)
                    \/ Called("delete") /\ own
              /\ (Expired(old) /\ Active(new)) =>
                    /\ Called("set") /\ own
                    /\ last'.lifespan_count # None
                    /\ last'.lifespan_count[1] > 0
              /\ (~(Called("set") \/ Called("delete")) \/ ~own) =>
                    /\ Active(new) <=> Active(old)
                    /\ Expired(new) <=> Expired(old)
      ]_vars

\* an expired inbound record brought back by set with lifespanCount 1
C10_Witness ==
    /\ inbound = << [name |-> <<"a">>, lifespanCount |-> 0] >>
    /\ calls = 1
    /\ last.op = "set" /\ last.name = Str(<<"a">>) /\ last.lifespan_count = Some(1)
    /\ Active(heap[1])

-----------------------------------------------------------------------------
\* the prefix emission puts before a name
Prefix == session \o <<"/", "contexts", "/">>

\* inbound record j is the one the mapping keeps under the short name k: its
\* name ends in k and no later inbound record's name does
KeptAs(j, k) ==
    /\ IsFinalSegment(k, inbound[j]["name"])
    /\ \A j2 \in (j + 1)..Len(inbound) : ~IsFinalSegment(k, inbound[j2]["name"])

C12_DeleteIdempotent ==
    [][ /\ phase = "ready" =>
              \A name \in { n \in NameArgs : n.type = "str" } :
                  LET once == DeleteCall(heap, contexts, name)
                      twice == DeleteCall(once.heap, once.dict, name)
                  IN  /\ once.raised = "" /\ twice.raised = ""
                      /\ twice.heap = once.heap
                      /\ twice.dict = once.dict
                      /\ Record(once.heap, once.dict, name.val)["lifespanCount"] = 0
                      /\ Record(twice.heap, twice.dict, name.val)["lifespanCount"] = 0
        /\ ( /\ Called("delete") /\ last.op = "delete"
             /\ last'.name = last.name /\ last.name.type = "str" ) =>
              /\ last.raised = "" /\ last'.raised = ""
              /\ UNCHANGED store
              /\ Record(heap', contexts', last.name.val)["lifespanCount"] = 0
      ]_vars

\* a name created by delete and deleted again
C12_Witness ==
    /\ inbound = <<>>
    /\ calls = 2
    /\ last.op = "delete" /\ last.name = Str(<<"c", "/", "d">>) /\ last.raised = ""
    /\ heap = << [name |-> <<"c", "/", "d">>, lifespanCount |-> 0] >>
    /\ Keys(contexts) = << <<"c", "/", "d">> >>

\* C13: get raises nothing, returns None for a name that is not a key and the
\* record of the key otherwise, and leaves the store and the cursor as they
\* were: it creates no record.
C13_GetTotalReadOnly ==
    [][ Called("get") =>
          /\ last'.raised = ""
          /\ UNCHANGED <<store, _index, _context_array>>
          /\ IF last'.name.type = "str"
                /\ \E i \in 1..Len(contexts) : contexts[i].key = last'.name.val
             THEN \E i \in 1..Len(contexts) :
                      /\ contexts[i].key = last'.name.val
                      /\ last'.ret = Some(contexts[i].ref)
             ELSE last'.ret = None
      ]_vars

\* get of a name the mapping does not have
C13_Witness ==
    /\ last.op = "get" /\ last.name = Str(<<"c", "/", "d">>) /\ last.ret = None
    /\ Keys(contexts) = << <<"a">>, <<"b">> >>
    /\ Len(heap) = 2

-----------------------------------------------------------------------------
\* iteration L ran from its iter(store) to its StopIteration with no other
\* call in between
Alone(L) == L.end # 0 /\ L.end - L.start = Len(L.got) + 1

\* C14: iterating the store to completion changes neither the mapping nor
\* its records (no iter or next call does), a complete iteration yields the
\* records of the mapping in order, and a second complete iteration started
\* right after the first yields the same sequence.
C14_IterationKeepsMapping ==
    [][ /\ last'.op \in {"iter", "next"} => UNCHANGED store
        /\ \A l \in 1..Len(loops') :
              Alone(loops'[l]) => loops'[l].got = Values(contexts')
        /\ \A l1, l2 \in 1..Len(loops') :
              ( /\ Alone(loops'[l1]) /\ Alone(loops'[l2])
                /\ loops'[l2].start = loops'[l1].end + 1 ) =>
                  loops'[l2].got = loops'[l1].got
      ]_vars

\* two complete iterations, one after the other, over two records
C14_Witness ==
    /\ Len(loops) = 2
    /\ Alone(loops[1]) /\ Alone(loops[2])
    /\ loops[2].start = loops[1].end + 1
    /\ Keys(contexts) = << <<"a">>, <<"b">> >>
    /\ loops[1].got = <<1, 2>> /\ loops[2].got = <<1, 2>>

\* C15: when a second iteration is started and run to completion while a
\* first one is in progress, both iterations yield every record of the
\* mapping once, in insertion order.
C15_ReentrantIteration ==
    \A l1, l2 \in 1..Len(loops) :
        ( /\ l1 < l2
          /\ Alone(loops[l2])
          /\ loops[l1].end > loops[l2].end ) =>
            /\ loops[l1].got = Values(contexts)
            /\ loops[l2].got = Values(contexts)

-----------------------------------------------------------------------------
\* C16: emission rewrites the live records: after the first emission get of a
\* key returns a record named session/contexts/key, and a second emission
\* right after the first returns every record under the doubly qualified name
\* session/contexts/session/contexts/key.
C16_EmissionDestructive ==
    [][ /\ (Called("emit") /\ emitted = 0) =>
              \A i \in 1..Len(contexts) :
                  LET k == contexts[i].key
                      got == GetCall(contexts', Str(k))
                  IN  /\ got # None
                      /\ heap'[got[1]]["name"] = Prefix \o k
        /\ (Called("emit") /\ emitted = 1 /\ last.op = "emit") =>
              /\ Len(last'.ret) = Len(contexts)
              /\ \A i \in 1..Len(contexts) :
                    /\ last'.ret[i] = contexts[i].ref
                    /\ heap'[last'.ret[i]]["name"] = Prefix \o Prefix \o contexts[i].key
      ]_vars

\* two emissions in a row on a store of two records
C16_Witness ==
    /\ calls = 2 /\ emitted = 2 /\ last.op = "emit"
    /\ Keys(contexts) = << <<"a">>, <<"b">> >>
    /\ heap[last.ret[2]]["name"] =
          <<"p", "/", "s1", "/", "contexts", "/", "p", "/", "s1", "/", "contexts", "/", "b">>

\* C17: a lifespanCount or parameters field that a record has is still there
\* after every call; set with the argument omitted does not clear it.
C17_FieldsStay ==
    [][ \A k \in KeySet(contexts), f \in Fields :
          f \in DOMAIN Record(heap, contexts, k) =>
              /\ HasKey(contexts', k)
              /\ f \in DOMAIN Record(heap', contexts', k)
              /\ ( /\ Called("set") /\ last'.name = Str(k)
                   /\ (IF f = "lifespanCount" THEN last'.lifespan_count ELSE last'.parameters) = None ) =>
                     Record(heap', contexts', k)[f] = Record(heap, contexts, k)[f]
      ]_vars

\* set("a") with both arguments omitted on a record that has both fields
C17_Witness ==
    /\ calls = 1
    /\ last.op = "set" /\ last.name = Str(<<"a">>)
    /\ last.lifespan_count = None /\ last.parameters = None
    /\ Len(inbound) = 1
    /\ heap[1] = [name |-> <<"a">>, lifespanCount |-> 2, parameters |-> P1]

\* C18: the keys of the snapshot input_contexts are the canonical names of the
\* inbound records, whatever set and delete have added to the live mapping,
\* and every one of them is a key of the live mapping.
C18_SnapshotKeysFixed ==
    phase = "ready" =>
        /\ Keys(input_contexts) = FirstOccurrences(InboundNames)
        /\ \A k \in KeySet(input_contexts) :
              \E j \in 1..Len(inbound) : IsFinalSegment(k, inbound[j]["name"])
        /\ KeySet(input_contexts) \subseteq KeySet(contexts)

\* a record created by set is in the live mapping and not in the snapshot
C18_Witness ==
    /\ last.op = "set" /\ last.name = Str(<<"c", "/", "d">>)
    /\ Keys(contexts) = << <<"a">>, <<"b">>, <<"c", "/", "d">> >>
    /\ Keys(input_contexts) = << <<"a">>, <<"b">> >>

\* C19: when two inbound records have the same canonical name, the mapping
\* holds one record under that name, with the fields of the later inbound
\* record, at the place the first of them has among the distinct names; the
\* array of iteration and emission and a complete iteration list it there.
C19_DuplicateInbound ==
    phase = "ready" =>
        \A j1, j2 \in 1..Len(inbound) :
            (j1 < j2 /\ InboundNames[j1] = InboundNames[j2]) =>
                LET k == InboundNames[j1]
                    at == { i \in 1..Len(contexts) : contexts[i].key = k }
                    first == CHOOSE j \in 1..Len(inbound) :
                                 /\ InboundNames[j] = k
                                 /\ \A j0 \in 1..(j - 1) : InboundNames[j0] # k
                    later == CHOOSE j \in 1..Len(inbound) :
                                 /\ InboundNames[j] = k
                                 /\ \A j0 \in (j + 1)..Len(inbound) : InboundNames[j0] # k
                    place == Cardinality({ InboundNames[j0] : j0 \in 1..first })
                IN  /\ Cardinality(at) = 1
                    /\ IsFinalSegment(k, inbound[j1]["name"])
                    /\ IsFinalSegment(k, inbound[j2]["name"])
                    /\ at = {place}
                    /\ heap[contexts[place].ref]["name"] = k
                    /\ \A f \in Fields : SameField(heap[contexts[place].ref], inbound[later], f)
                    /\ contexts[place].ref = later
                    /\ ContextArray(contexts)[place] = later
                    /\ \A l \in 1..Len(loops) :
                          Alone(loops[l]) => loops[l].got[place] = later

\* inbound [b, a, a'] with a complete iteration: a' is listed second
C19_Witness ==
    /\ Len(inbound) = 3
    /\ InboundNames = << <<"b">>, <<"a">>, <<"a">> >>
    /\ inbound[2] # inbound[3]
    /\ Keys(contexts) = << <<"b">>, <<"a">> >>
    /\ heap[3] = [name |-> <<"a">>, lifespanCount |-> 0]
    /\ Len(loops) = 1 /\ Alone(loops[1]) /\ loops[1].got = <<1, 3>>

====
